---- MODULE Spec2Model ----
(***************************************************************************)
(* Selective undo/redo of graphical entities: the DrawingAction record     *)
(* (src/src/drawing-action.ts) and the UndoService that stores the actions *)
(* (src/src/undo-service.ts).                                              *)
(*                                                                         *)
(* Objects have identity.  An entity is one of Entities and ents[e] holds  *)
(* its own properties.  A DrawingAction is a heap cell recs[id], id being  *)
(* its allocation number; `actions' and `pending' are arrays of such ids.  *)
(* A state snapshot is an object of its own: ref names the object, val its *)
(* properties.                                                             *)
(***************************************************************************)
EXTENDS Integers, Sequences, FiniteSets, TLC

\* ------------------------------------------------------------- bounds
MaxRecs == 3          \* DrawingActions constructed in one run
MaxVal == 1           \* the property x of an entity ranges over 0..MaxVal
MaxArgs == 2          \* longest array passed to start / store / undoLast / redoLast
MaxMaxActions == 2    \* maxActions is drawn from 1..MaxMaxActions
MaxToggles == 3       \* alternations of undoLast and redoLast on one record

\* ------------------------------------------------------------- entities
Entities == {"e1", "e2"}

IdOf(e) == IF e = "e1" THEN "A" ELSE "B"

Ids == {IdOf(e) : e \in Entities}

NoProps == [p \in {} |-> 0]

\* The shapes an entity can take: entityId is stable, x is always there,
\* and e1 has an optional property y that an edit may add or delete.
Shapes(e) ==
    {[entityId |-> IdOf(e), x |-> v] : v \in 0..MaxVal}
        \cup (IF e = "e1"
              THEN {[entityId |-> IdOf(e), x |-> v, y |-> 1] : v \in 0..MaxVal}
              ELSE {})

\* Arrays of at most MaxArgs elements of S.
Arrays(S) == UNION {[1..n -> S] : n \in 0..MaxArgs}

\* ------------------------------------------------------------- enums
UndoStateEnum == {"pending", "restored", "undone"}

UndoCUDOpEnum == {"update", "create", "delete"}

\* ------------------------------------------------------------- state
VARIABLES ents,             \* the own properties of each entity
          recs,             \* the DrawingActions, by allocation number
          actions,          \* UndoService.actions
          pending,          \* UndoService.pending
          maxActions,       \* UndoService.maxActions
          createRequested,  \* whether the host has assigned the callback
          deleteRequested,
          top,              \* allocation number of the newest DrawingAction
          calls,            \* the callbacks the last operation made, in order
          appended          \* history: every push onto actions since the last clear

vars == <<ents, recs, actions, pending, maxActions,
          createRequested, deleteRequested, top, calls, appended>>

\* The service and the objects it reaches, as one value.
Svc == [ents |-> ents, recs |-> recs, actions |-> actions, pending |-> pending,
        top |-> top, calls |-> calls, appended |-> appended]

\* The value of a field that was never assigned.
undefined == [ref |-> <<0, 0>>, val |-> NoProps]

\* ------------------------------------------------------------- DrawingAction
\* A fresh object with the own properties of o; ref is the new object: the
\* two states of the action id are the objects <<id, 0>> and <<id, 1>> (a
\* state that store replaces is unreachable, and its place is taken again).
cloneState(o, ref) == [ref |-> ref, val |-> [p \in DOMAIN o |-> o[p]]]

\* new DrawingAction(e, cudOp): the cell and the service state holding it.
DrawingAction(S, e, cudOp) ==
    LET id == S.top + 1
        a == [entity |-> e, cudOp |-> cudOp, status |-> "pending",
              prevState |-> cloneState(S.ents[e], <<id, 0>>),
              nextState |-> undefined]
    IN [S EXCEPT !.top = id, !.recs = (id :> a) @@ S.recs]

\* store taking the earlier state for the new one.
DrawingAction_store_KeepsPrev(S, id, e) ==
    LET a == S.recs[id]
    IN [S EXCEPT !.recs[id] =
          [a EXCEPT !.nextState = cloneState(a.prevState.val, <<id, 1>>),
                    !.status = "restored"]]

\* store leaving the status as it is.
DrawingAction_store_KeepsStatus(S, id, e) ==
    LET a == S.recs[id]
    IN [S EXCEPT !.recs[id] =
          [a EXCEPT !.nextState = cloneState(S.ents[e], <<id, 1>>)]]

\* a.store(e): the state after the call.
DrawingAction_store(S, id, e) ==
    LET a == S.recs[id]
    IN [S EXCEPT !.recs[id] =
          [a EXCEPT !.nextState = cloneState(S.ents[e], <<id, 1>>),
                    !.status = "restored"]]

\* What a.store(e) returns, read in the state after the call.
storeReturns(S, id) == S.recs[id].prevState.ref # S.recs[id].nextState.ref

\* Object.assign(target, source): every own property of source is written
\* onto target, the other properties of target stay.
ObjectAssign(target, source) ==
    [p \in DOMAIN target \cup DOMAIN source |->
        IF p \in DOMAIN source THEN source[p] ELSE target[p]]

\* switchState without the exchange of the two states.
switchState_NoExchange(S, id, status) ==
    LET a == S.recs[id]
    IN [S EXCEPT !.ents[a.entity] = ObjectAssign(S.ents[a.entity], a.prevState.val),
                 !.recs[id] = [a EXCEPT !.status = status]]

\* switchState leaving the status as it is.
switchState_KeepsStatus(S, id, status) ==
    LET a == S.recs[id]
        tmp == a.prevState
    IN [S EXCEPT !.ents[a.entity] = ObjectAssign(S.ents[a.entity], a.prevState.val),
                 !.recs[id] = [a EXCEPT !.prevState = a.nextState,
                                        !.nextState = tmp]]

switchState(S, id, status) ==
    LET a == S.recs[id]
        tmp == a.prevState
    IN [S EXCEPT !.ents[a.entity] = ObjectAssign(S.ents[a.entity], a.prevState.val),
                 !.recs[id] = [a EXCEPT !.prevState = a.nextState,
                                        !.nextState = tmp,
                                        !.status = status]]

DrawingAction_undo(S, id) == switchState(S, id, "undone")

DrawingAction_redo(S, id) == switchState(S, id, "restored")

\* ------------------------------------------------------------- UndoService
\* checkMax dropping the newest action instead of the oldest.
checkMax_DropsNewest(S, max) ==
    IF Len(S.actions) > max
    THEN [S EXCEPT !.actions = SubSeq(S.actions, 1, Len(S.actions) - 1)]
    ELSE S

\* checkMax enforcing the bound only when it is positive.
checkMax_OnlyPositive(S, max) ==
    IF max > 0 /\ Len(S.actions) > max
    THEN [S EXCEPT !.actions = Tail(S.actions)]
    ELSE S

checkMax(S, max) ==
    IF Len(S.actions) > max THEN [S EXCEPT !.actions = Tail(S.actions)] ELSE S

storeAction(S, id, max) ==
    checkMax([S EXCEPT !.actions = Append(S.actions, id),
                       !.appended = Append(S.appended, id)], max)

Includes(ids, id) == \E i \in DOMAIN ids : ids[i] = id

\* ids is "undefined" when the argument is omitted, an array otherwise.
NoIds == <<"undefined">>

\* able without the filter on ids.
able_IgnoresIds(S, status, ids) ==
    LET Keep(id) == S.recs[id].status = status
    IN SelectSeq(S.actions, Keep)

\* able filtering on ids whenever an array is given, the empty one too.
able_EmptyFilters(S, status, ids) ==
    IF ids # NoIds
    THEN LET Keep(id) == Includes(ids, S.ents[S.recs[id].entity].entityId)
                           /\ S.recs[id].status = status
         IN SelectSeq(S.actions, Keep)
    ELSE LET Keep(id) == S.recs[id].status = status
         IN SelectSeq(S.actions, Keep)

able(S, status, ids) ==
    IF ids # NoIds /\ Len(ids) > 0
    THEN LET Keep(id) == Includes(ids, S.ents[S.recs[id].entity].entityId)
                           /\ S.recs[id].status = status
         IN SelectSeq(S.actions, Keep)
    ELSE LET Keep(id) == S.recs[id].status = status
         IN SelectSeq(S.actions, Keep)

undoable(S, ids) == able(S, "restored", ids)

redoable(S, ids) == able(S, "undone", ids)

\* start putting every new action in pending, whatever the operation.
startOne_AlwaysPending(S, e, cudOp, max) ==
    LET S1 == DrawingAction(S, e, cudOp)
    IN [S1 EXCEPT !.pending = Append(S1.pending, S1.top)]

\* start keeping, in pending, one action for each entity id.
startOne_Keyed(S, e, cudOp, max) ==
    LET S1 == DrawingAction(S, e, cudOp)
        id == S1.top
        Other(x) == S1.ents[S1.recs[x].entity].entityId # S1.ents[e].entityId
    IN IF cudOp # "update"
       THEN storeAction(DrawingAction_store(S1, id, e), id, max)
       ELSE [S1 EXCEPT !.pending = Append(SelectSeq(S1.pending, Other), id)]

\* One turn of the forEach of start.
startOne(S, e, cudOp, max) ==
    LET S1 == DrawingAction(S, e, cudOp)
        id == S1.top
    IN IF cudOp # "update"
       THEN storeAction(DrawingAction_store(S1, id, e), id, max)
       ELSE [S1 EXCEPT !.pending = Append(S1.pending, id)]

RECURSIVE start(_, _, _, _)
start(S, es, cudOp, max) ==
    IF es = <<>> THEN S
    ELSE start(startOne(S, Head(es), cudOp, max), Tail(es), cudOp, max)

\* this.pending.find(x => x.entity.entityId === e.entityId): the index of the
\* first match, 0 when there is none.
find(S, e) ==
    LET hits == {i \in DOMAIN S.pending :
                    S.ents[S.recs[S.pending[i]].entity].entityId = S.ents[e].entityId}
    IN IF hits = {} THEN 0 ELSE CHOOSE i \in hits : \A j \in hits : i <= j

\* One turn of the forEach of store.
storeOne(S, e, max) ==
    LET i == find(S, e)
    IN IF i = 0 THEN S
       ELSE LET id == S.pending[i]
                S1 == DrawingAction_store(S, id, e)
            IN IF storeReturns(S1, id) THEN storeAction(S1, id, max) ELSE S1

RECURSIVE storeEach(_, _, _)
storeEach(S, es, max) ==
    IF es = <<>> THEN S ELSE storeEach(storeOne(S, Head(es), max), Tail(es), max)

\* store leaving pending as it is.
store_KeepsPending(S, es, max) == storeEach(S, es, max)

store(S, es, max) == [storeEach(S, es, max) EXCEPT !.pending = <<>>]

\* abort leaving pending as it is.
abort_KeepsPending(S) == S

abort(S) == [S EXCEPT !.pending = <<>>]

clear(S) == [S EXCEPT !.pending = <<>>, !.actions = <<>>, !.appended = <<>>]

\* The host's callbacks, when assigned, are recorded in calls.
call(S, assigned, fn, arg) ==
    IF assigned THEN [S EXCEPT !.calls = Append(S.calls, <<fn, arg>>)] ELSE S

\* undoLast taking the first undoable action.
undoLast_TakesFirst(S, ids, onCreate, onDelete) ==
    LET u == undoable(S, ids)
    IN IF Len(u) = 0 THEN S
       ELSE LET lst == u[1]
                a == S.recs[lst]
                S1 == CASE a.cudOp = "create" ->
                             call(S, onDelete, "deleteRequested", S.ents[a.entity].entityId)
                        [] a.cudOp = "delete" ->
                             call(S, onCreate, "createRequested", a.entity)
                        [] OTHER -> S
            IN DrawingAction_undo(S1, lst)

\* undoLast with the callbacks of redoLast.
undoLast_RedoCallbacks(S, ids, onCreate, onDelete) ==
    LET u == undoable(S, ids)
    IN IF Len(u) = 0 THEN S
       ELSE LET lst == u[Len(u)]
                a == S.recs[lst]
                S1 == CASE a.cudOp = "create" ->
                             call(S, onCreate, "createRequested", a.entity)
                        [] a.cudOp = "delete" ->
                             call(S, onDelete, "deleteRequested", S.ents[a.entity].entityId)
                        [] OTHER -> S
            IN DrawingAction_undo(S1, lst)

undoLast(S, ids, onCreate, onDelete) ==
    LET u == undoable(S, ids)
    IN IF Len(u) = 0 THEN S
       ELSE LET lst == u[Len(u)]
                a == S.recs[lst]
                S1 == CASE a.cudOp = "create" ->
                             call(S, onDelete, "deleteRequested", S.ents[a.entity].entityId)
                        [] a.cudOp = "delete" ->
                             call(S, onCreate, "createRequested", a.entity)
                        [] OTHER -> S
            IN DrawingAction_undo(S1, lst)

\* redoLast falling back on every reverted action when none passes ids.
redoLast_FallsBackToAll(S, ids, onCreate, onDelete) ==
    LET r == IF Len(redoable(S, ids)) = 0 THEN redoable(S, NoIds) ELSE redoable(S, ids)
    IN IF Len(r) = 0 THEN S
       ELSE LET first == r[1]
                a == S.recs[first]
                S1 == CASE a.cudOp = "create" ->
                             call(S, onCreate, "createRequested", a.entity)
                        [] a.cudOp = "delete" ->
                             call(S, onDelete, "deleteRequested", S.ents[a.entity].entityId)
                        [] OTHER -> S
            IN DrawingAction_redo(S1, first)

redoLast(S, ids, onCreate, onDelete) ==
    LET r == redoable(S, ids)
    IN IF Len(r) = 0 THEN S
       ELSE LET first == r[1]
                a == S.recs[first]
                S1 == CASE a.cudOp = "create" ->
                             call(S, onCreate, "createRequested", a.entity)
                        [] a.cudOp = "delete" ->
                             call(S, onDelete, "deleteRequested", S.ents[a.entity].entityId)
                        [] OTHER -> S
            IN DrawingAction_redo(S1, first)

\* ------------------------------------------------------------- the machine
\* Cells no array refers to any more are unreachable and are dropped.
Reachable(S) ==
    LET live == {S.actions[i] : i \in DOMAIN S.actions}
                  \cup {S.pending[i] : i \in DOMAIN S.pending}
    IN [S EXCEPT !.recs = [id \in live |-> S.recs[id]]]

\* An operation takes the service from Svc to S.
Becomes(S) ==
    LET R == Reachable(S)
    IN /\ ents' = R.ents
       /\ recs' = R.recs
       /\ actions' = R.actions
       /\ pending' = R.pending
       /\ top' = R.top
       /\ calls' = R.calls
       /\ appended' = R.appended
       /\ UNCHANGED maxActions

\* The service as an operation finds it: no callback made yet.
Fresh == [Svc EXCEPT !.calls = <<>>]

\* new UndoService(maxActions), the entities of the drawing beside it.
Init ==
    /\ ents = [e \in Entities |-> [entityId |-> IdOf(e), x |-> 0]]
    /\ recs = [id \in {} |-> 0]
    /\ actions = <<>>
    /\ pending = <<>>
    /\ maxActions \in 1..MaxMaxActions
    /\ createRequested = FALSE
    /\ deleteRequested = FALSE
    /\ top = 0
    /\ calls = <<>>
    /\ appended = <<>>

\* The parent model assigns the two callbacks.
AssignCallbacks ==
    /\ ~createRequested
    /\ createRequested' = TRUE
    /\ deleteRequested' = TRUE
    /\ UNCHANGED <<ents, recs, actions, pending, maxActions, top, calls, appended>>

Start ==
    \E es \in Arrays(Entities), cudOp \in UndoCUDOpEnum :
        /\ top + Len(es) <= MaxRecs
        /\ Becomes(start(Fresh, es, cudOp, maxActions))
        /\ UNCHANGED <<createRequested, deleteRequested>>

\* The host edits, in place, an entity whose update has begun.
Edit ==
    \E e \in Entities : \E f \in Shapes(e) :
        /\ \E i \in DOMAIN pending : recs[pending[i]].entity = e
        /\ f # ents[e]
        /\ Becomes([Fresh EXCEPT !.ents[e] = f])
        /\ UNCHANGED <<createRequested, deleteRequested>>

Store ==
    \E es \in Arrays(Entities) :
        /\ Becomes(store(Fresh, es, maxActions))
        /\ UNCHANGED <<createRequested, deleteRequested>>

Abort ==
    /\ Becomes(abort(Fresh))
    /\ UNCHANGED <<createRequested, deleteRequested>>

Clear ==
    /\ Becomes(clear(Fresh))
    /\ UNCHANGED <<createRequested, deleteRequested>>

UndoLast ==
    \E ids \in Arrays(Ids) \cup {NoIds} :
        /\ Becomes(undoLast(Fresh, ids, createRequested, deleteRequested))
        /\ UNCHANGED <<createRequested, deleteRequested>>

RedoLast ==
    \E ids \in Arrays(Ids) \cup {NoIds} :
        /\ Becomes(redoLast(Fresh, ids, createRequested, deleteRequested))
        /\ UNCHANGED <<createRequested, deleteRequested>>

Next ==
    \/ AssignCallbacks
    \/ Start
    \/ Edit
    \/ Store
    \/ Abort
    \/ Clear
    \/ UndoLast
    \/ RedoLast

Spec == Init /\ [][Next]_vars

\* new UndoService(maxActions) with maxActions zero or negative: the
\* constructor takes any number.
InitNoHistory ==
    /\ ents = [e \in Entities |-> [entityId |-> IdOf(e), x |-> 0]]
    /\ recs = [id \in {} |-> 0]
    /\ actions = <<>>
    /\ pending = <<>>
    /\ maxActions \in (0 - MaxMaxActions)..0
    /\ createRequested = FALSE
    /\ deleteRequested = FALSE
    /\ top = 0
    /\ calls = <<>>
    /\ appended = <<>>

SpecNoHistory == InitNoHistory /\ [][Next]_vars

\* The host that never passes ids: undoLast() and redoLast() only.
UndoLastAll ==
    /\ Becomes(undoLast(Fresh, NoIds, createRequested, deleteRequested))
    /\ UNCHANGED <<createRequested, deleteRequested>>

RedoLastAll ==
    /\ Becomes(redoLast(Fresh, NoIds, createRequested, deleteRequested))
    /\ UNCHANGED <<createRequested, deleteRequested>>

NextNoIds ==
    \/ AssignCallbacks
    \/ Start
    \/ Edit
    \/ Store
    \/ Abort
    \/ Clear
    \/ UndoLastAll
    \/ RedoLastAll

SpecNoIds == Init /\ [][NextNoIds]_vars

TypeOK ==
    /\ \A e \in Entities : ents[e] \in Shapes(e)
    /\ DOMAIN recs \subseteq 1..MaxRecs
    /\ \A i \in DOMAIN actions : actions[i] \in DOMAIN recs
    /\ \A i \in DOMAIN pending : pending[i] \in DOMAIN recs
    /\ \A id \in DOMAIN recs : recs[id].status \in UndoStateEnum
                                /\ recs[id].cudOp \in UndoCUDOpEnum

\* ------------------------------------------------------------- shared by the claims
\* The status of every DrawingAction of S.
StatusOf(S) == [id \in DOMAIN S.recs |-> S.recs[id].status]

\* id passes the filter ids, as the specification states it.
Passes(ids, id) == ids = NoIds \/ Len(ids) = 0 \/ \E i \in DOMAIN ids : ids[i] = id

\* The positions of actions whose record has the status and passes the filter.
Candidates(status, ids) ==
    {i \in DOMAIN actions :
        /\ recs[actions[i]].status = status
        /\ Passes(ids, ents[recs[actions[i]].entity].entityId)}

Min(S) == CHOOSE m \in S : \A n \in S : m <= n

Max(S) == CHOOSE m \in S : \A n \in S : m >= n

\* undoLast() and redoLast() as the service runs them now.
Undone(ids) == undoLast(Fresh, ids, createRequested, deleteRequested)

Redone(S, ids) == redoLast([S EXCEPT !.calls = <<>>], ids, createRequested, deleteRequested)

\* ------------------------------------------------------------- C1
\* The record undoLast() selects now (there is one).
C1_Selected == actions[Max(Candidates("restored", NoIds))]

\* No reverted record stands, in actions, before the record undoLast() selects.
C1_NoEarlierReverted ==
    \A i \in DOMAIN actions :
        recs[actions[i]].status = "undone" =>
            \E j \in 1..i : actions[j] = C1_Selected

\* The entity of the selected record holds the record's after-state, and
\* that state has every property the before-state has.
C1_AtAfterState ==
    LET a == recs[C1_Selected]
    IN /\ ents[a.entity] = a.nextState.val
       /\ DOMAIN a.prevState.val \subseteq DOMAIN a.nextState.val

C1_RoundTrip ==
    LET S2 == Redone(Undone(NoIds), NoIds)
    IN /\ S2.ents = ents
       /\ \A i \in DOMAIN actions : S2.recs[actions[i]].status = recs[actions[i]].status

C2_UnchangedCommitAddsNothing ==
    \A e \in Entities :
        store(start(Fresh, <<e>>, "update", maxActions), <<e>>, maxActions).actions
            = actions

\* ------------------------------------------------------------- C3
\* The last n elements of s.
LastN(s, n) == SubSeq(s, Len(s) - n + 1, Len(s))

\* C3: the committed log holds at most maxActions records, and they are the
\* most recently appended ones, in the order they were appended.
C3_BoundedMostRecent ==
    /\ Len(actions) <= maxActions
    /\ actions = LastN(appended, Min({Len(appended), maxActions}))

\* More was appended than the log holds: the oldest records were dropped.
C3_Witness ==
    /\ maxActions = 2
    /\ Len(appended) = maxActions + 1
    /\ Len(actions) = maxActions
    /\ actions[1] # actions[2]
    /\ actions[1] # appended[1]

\* ------------------------------------------------------------- C4
\* What undoLast(ids) or redoLast(ids) changed, S2 being the state after it.
ChangedEntities(S2) == {e \in Entities : S2.ents[e] # ents[e]}

ChangedRecords(S2) == {id \in DOMAIN recs : S2.recs[id] # recs[id]}

\* C4: with a non-empty ids, undoLast(ids) and redoLast(ids) change the fields
\* of at most one entity, whose id is in ids, and at most one record, which
\* tracks that entity; entities whose id is not in ids, and their records,
\* are left as they are.
C4_SelectiveFrame ==
    \A ids \in Arrays(Ids) \ {<<>>} :
        \A S2 \in {Undone(ids), Redone(Fresh, ids)} :
            /\ Cardinality(ChangedEntities(S2)) <= 1
            /\ Cardinality(ChangedRecords(S2)) <= 1
            /\ \A e \in ChangedEntities(S2) : Includes(ids, ents[e].entityId)
            /\ \A id \in ChangedRecords(S2) :
                  /\ Includes(ids, ents[recs[id].entity].entityId)
                  /\ ChangedEntities(S2) \subseteq {recs[id].entity}
                  /\ S2.recs[id].status # recs[id].status
            /\ \A e \in Entities :
                  ~Includes(ids, ents[e].entityId) => S2.ents[e] = ents[e]
            /\ \A id \in DOMAIN recs :
                  ~Includes(ids, ents[recs[id].entity].entityId) =>
                      S2.recs[id].status = recs[id].status

\* Both entities have an applied update, the newest being the one of B:
\* undoLast(["A"]) reverts the fields of A and leaves B and its record.
C4_Witness ==
    /\ Len(actions) = 2
    /\ recs[actions[1]].entity = "e1" /\ recs[actions[1]].status = "restored"
    /\ recs[actions[2]].entity = "e2" /\ recs[actions[2]].status = "restored"
    /\ recs[actions[2]].prevState.val # ents["e2"]
    /\ Undone(<<"A">>).ents["e1"] # ents["e1"]
    /\ Undone(<<"A">>).ents["e2"] = ents["e2"]
    /\ Undone(<<"A">>).recs[actions[1]].status = "undone"
    /\ Undone(<<"A">>).recs[actions[2]].status = "restored"

\* ------------------------------------------------------------- C5
\* e has a record in pending.
Staged(e) ==
    \E i \in DOMAIN pending :
        ents[recs[pending[i]].entity].entityId = ents[e].entityId

\* begin([e], update), the edit of e to f, commit([e]): the last record of
\* actions tracks e, from the fields of e at the begin to f, and is applied.
C5_Recorded(e, f) ==
    LET S1 == start(Fresh, <<e>>, "update", maxActions)
        S3 == store([S1 EXCEPT !.ents[e] = f], <<e>>, maxActions)
    IN /\ Len(S3.actions) > 0
       /\ LET a == S3.recs[S3.actions[Len(S3.actions)]]
          IN /\ a.entity = e
             /\ a.prevState.val = ents[e]
             /\ a.nextState.val = f
             /\ a.status = "restored"

\* C5 as stated: from every reachable state, after begin([e], update), a
\* change of e's fields and commit([e]), the last record of committed tracks
\* e, holds e's fields at the begin and at the commit, and is applied.
C5_CommitRecordsBeforeAfter_Original ==
    \A e \in Entities : \A f \in Shapes(e) \ {ents[e]} : C5_Recorded(e, f)

\* C5 as amended: when e has no record in staging at the begin, then after
\* begin([e], update), a change of e's fields and commit([e]), the last record
\* of committed tracks e, holds e's fields at the begin and at the commit, and
\* is applied.
C5_CommitRecordsBeforeAfter ==
    \A e \in Entities :
        ~Staged(e) => \A f \in Shapes(e) \ {ents[e]} : C5_Recorded(e, f)

\* begin, edit and commit have run on e1, the log being full before: the
\* newest record is the last of actions and holds the two states.
C5_Witness ==
    /\ pending = <<>>
    /\ Len(appended) > maxActions
    /\ LET a == recs[actions[Len(actions)]]
       IN /\ actions[Len(actions)] = top
          /\ a.entity = "e1"
          /\ a.cudOp = "update"
          /\ a.status = "restored"
          /\ a.prevState.val # a.nextState.val
          /\ a.nextState.val = ents["e1"]
          /\ "y" \in DOMAIN a.nextState.val

\* ------------------------------------------------------------- C6
\* C6: undoLast flips to reverted the last applied record of actions that
\* passes the filter, redoLast flips to applied the first reverted one, and
\* no other record changes status; with no such record none changes.
C6_SelectsLastAndFirst ==
    \A ids \in Arrays(Ids) \cup {NoIds} :
        /\ LET c == Candidates("restored", ids)
           IN StatusOf(Undone(ids)) =
                IF c = {} THEN StatusOf(Fresh)
                ELSE [StatusOf(Fresh) EXCEPT ![actions[Max(c)]] = "undone"]
        /\ LET c == Candidates("undone", ids)
           IN StatusOf(Redone(Fresh, ids)) =
                IF c = {} THEN StatusOf(Fresh)
                ELSE [StatusOf(Fresh) EXCEPT ![actions[Min(c)]] = "restored"]

\* Two records of one entity have been undone, newest first: redoLast takes
\* the older one, undoLast(["A"]) would have nothing to take.
C6_Witness ==
    /\ Len(actions) = 2
    /\ actions[1] # actions[2]
    /\ recs[actions[1]].status = "undone"
    /\ recs[actions[2]].status = "undone"
    /\ recs[actions[1]].entity = "e1"
    /\ recs[actions[2]].entity = "e1"
    /\ Redone(Fresh, <<"A">>).recs[actions[1]].status = "restored"
    /\ Redone(Fresh, <<"A">>).recs[actions[2]].status = "undone"

\* ------------------------------------------------------------- C7
\* The records whose status the operation changed, S2 being the state after.
Flipped(S2) == {id \in DOMAIN recs : S2.recs[id].status # recs[id].status}

DeleteCall(a, assigned) ==
    IF assigned THEN << <<"deleteRequested", ents[a.entity].entityId>> >> ELSE <<>>

CreateCall(a, assigned) ==
    IF assigned THEN << <<"createRequested", a.entity>> >> ELSE <<>>

\* C7: undoLast calls deleteRequested(id) for a create record,
\* createRequested(entity) for a delete record and nothing for an update;
\* redoLast calls createRequested for a create record, deleteRequested for a
\* delete record and nothing for an update; a callback that is not assigned
\* is not called, and an operation that selects no record calls nothing.
C7_CallbackPolarity ==
    \A ids \in Arrays(Ids) \cup {NoIds} : \A onCreate, onDelete \in BOOLEAN :
        /\ LET S2 == undoLast(Fresh, ids, onCreate, onDelete)
           IN /\ Flipped(S2) = {} => S2.calls = <<>>
              /\ \A id \in Flipped(S2) :
                    S2.calls = CASE recs[id].cudOp = "create" -> DeleteCall(recs[id], onDelete)
                                 [] recs[id].cudOp = "delete" -> CreateCall(recs[id], onCreate)
                                 [] OTHER -> <<>>
        /\ LET S2 == redoLast(Fresh, ids, onCreate, onDelete)
           IN /\ Flipped(S2) = {} => S2.calls = <<>>
              /\ \A id \in Flipped(S2) :
                    S2.calls = CASE recs[id].cudOp = "create" -> CreateCall(recs[id], onCreate)
                                 [] recs[id].cudOp = "delete" -> DeleteCall(recs[id], onDelete)
                                 [] OTHER -> <<>>

\* The deletion of e1 has just been undone: the host was asked to create it.
C7_Witness ==
    /\ calls = << <<"createRequested", "e1">> >>
    /\ \E i \in DOMAIN actions :
          /\ recs[actions[i]].cudOp = "delete"
          /\ recs[actions[i]].entity = "e1"
          /\ recs[actions[i]].status = "undone"
    /\ \E i \in DOMAIN actions : recs[actions[i]].cudOp = "update"

\* ------------------------------------------------------------- C8
\* C8: begin([e], create) then undoLast() calls deleteRequested(e.entityId)
\* once (when it is assigned), never createRequested, and leaves the fields of
\* every entity as they were.
C8_UndoOfCreate ==
    \A e \in Entities : \A onCreate, onDelete \in BOOLEAN :
        LET S1 == start(Fresh, <<e>>, "create", maxActions)
            S2 == undoLast(S1, NoIds, onCreate, onDelete)
        IN /\ S2.calls = IF onDelete
                         THEN << <<"deleteRequested", ents[e].entityId>> >>
                         ELSE <<>>
           /\ S2.ents = S1.ents
           /\ S2.recs[S1.top].status = "undone"

\* The creation of e2 has just been undone, e1 being edited meanwhile.
C8_Witness ==
    /\ calls = << <<"deleteRequested", "B">> >>
    /\ Len(actions) = 2
    /\ actions[2] = top
    /\ recs[top].cudOp = "create"
    /\ recs[top].entity = "e2"
    /\ recs[top].status = "undone"
    /\ recs[actions[1]].status = "restored"
    /\ ents["e2"].x = 1

\* ------------------------------------------------------------- C9
\* C9: abort() after begin(es) empties staging and changes neither actions nor
\* any entity; a commit of the same entities then appends nothing, whatever
\* was edited since the begin.
C9_AbortDiscards ==
    \A es \in Arrays(Entities) :
        LET S1 == start(Fresh, es, "update", maxActions)
            S2 == abort(S1)
        IN /\ S2.pending = <<>>
           /\ S2.actions = S1.actions
           /\ S2.ents = S1.ents
           /\ StatusOf(S2) = StatusOf(S1)
           /\ \A e \in Entities : \A f \in Shapes(e) :
                 LET S3 == store([S2 EXCEPT !.ents[e] = f], es, maxActions)
                 IN /\ S3.actions = actions
                    /\ S3.pending = <<>>

\* Both entities are staged and e1 has been edited: a commit now would append
\* a record, and after abort() it appends none.
C9_Witness ==
    /\ Len(pending) = 2
    /\ recs[pending[1]].entity = "e1"
    /\ recs[pending[2]].entity = "e2"
    /\ recs[pending[1]].prevState.val # ents["e1"]
    /\ Len(actions) = 1
    /\ store(Fresh, <<"e1", "e2">>, maxActions).actions # actions
    /\ store(abort(Fresh), <<"e1", "e2">>, maxActions).actions = actions

\* ------------------------------------------------------------- C10
\* The ids of the entities of es.
IdsOf(es) == {ents[es[i]].entityId : i \in DOMAIN es}

\* C10: commit(es) leaves staging empty whatever es is; a staged record whose
\* entity is not in es is not appended to actions, and a later commit appends
\* nothing.
C10_CommitClearsStaging ==
    \A es \in Arrays(Entities) :
        LET S1 == store(Fresh, es, maxActions)
        IN /\ S1.pending = <<>>
           /\ \A i \in DOMAIN pending :
                 ents[recs[pending[i]].entity].entityId \notin IdsOf(es) =>
                     \A j \in DOMAIN S1.actions : S1.actions[j] # pending[i]
           /\ \A es2 \in Arrays(Entities) :
                 store(S1, es2, maxActions).actions = S1.actions

\* Both entities are staged and edited: commit([e1]) appends the record of e1
\* and drops the one of e2, which a later commit([e2]) does not find.
C10_Witness ==
    /\ Len(pending) = 2
    /\ recs[pending[1]].entity = "e1"
    /\ recs[pending[2]].entity = "e2"
    /\ recs[pending[1]].prevState.val # ents["e1"]
    /\ recs[pending[2]].prevState.val # ents["e2"]
    /\ LET S1 == store(Fresh, <<"e1">>, maxActions)
       IN /\ S1.actions = Append(actions, pending[1])
          /\ S1.pending = <<>>
          /\ store(S1, <<"e2">>, maxActions).actions = S1.actions

\* ------------------------------------------------------------- C11
\* C11: when begin([e], create) has appended its record, the record's
\* priorState is empty, and when begin([e], delete) has appended its record,
\* the record's laterState is empty.
C11_CreateDeleteEmpty ==
    \A e \in Entities :
        /\ LET S1 == start(Fresh, <<e>>, "create", maxActions)
           IN S1.recs[S1.top].prevState.val = NoProps
        /\ LET S1 == start(Fresh, <<e>>, "delete", maxActions)
           IN S1.recs[S1.top].nextState.val = NoProps

\* ------------------------------------------------------------- C12
\* The record undoLast() selects now is an update, and no record is reverted:
\* undoLast() and redoLast() then alternate on that one record.
C12_OneRecord ==
    /\ Candidates("restored", NoIds) # {}
    /\ Candidates("undone", NoIds) = {}
    /\ recs[C1_Selected].cudOp = "update"

\* n alternations of undoLast() and redoLast() from S on the record id, whose
\* before-state is P and after-state L: every undoLast() leaves the entity
\* with the fields P, every redoLast() with the fields L, and the two
\* snapshots of the record stay P and L.
RECURSIVE C12_Toggles(_, _, _, _, _)
C12_Toggles(S, id, P, L, n) ==
    IF n = 0 THEN TRUE
    ELSE LET e == S.recs[id].entity
             S1 == undoLast([S EXCEPT !.calls = <<>>], NoIds, createRequested, deleteRequested)
             S2 == Redone(S1, NoIds)
         IN /\ S1.ents[e] = P
            /\ {S1.recs[id].prevState.val, S1.recs[id].nextState.val} = {P, L}
            /\ S2.ents[e] = L
            /\ {S2.recs[id].prevState.val, S2.recs[id].nextState.val} = {P, L}
            /\ C12_Toggles(S2, id, P, L, n - 1)

\* C12: for a committed update record with before-state P and after-state L,
\* and with no other operation in between, every undoLast() sets the entity's
\* fields to P and every following redoLast() sets them to L, for any number
\* of alternations, and the record's two snapshots remain P and L.
C12_TogglesWithoutLoss ==
    C12_OneRecord =>
        LET a == recs[C1_Selected]
        IN C12_Toggles(Fresh, C1_Selected, a.prevState.val, a.nextState.val, MaxToggles)

\* ------------------------------------------------------------- C13
\* The elements of the array s.
Elems(s) == {s[i] : i \in DOMAIN s}

\* C13: undoLast([]) has the effect of undoLast() and redoLast([]) the effect
\* of redoLast() (same record, same callbacks, same resulting state); with a
\* non-empty ids the candidates are exactly the records of the required
\* status whose entity id is a member of ids.
C13_EmptyIdsAsOmitted ==
    /\ Undone(<<>>) = Undone(NoIds)
    /\ Redone(Fresh, <<>>) = Redone(Fresh, NoIds)
    /\ \A status \in {"restored", "undone"} :
          /\ able(Fresh, status, <<>>) = able(Fresh, status, NoIds)
          /\ \A ids \in Arrays(Ids) \ {<<>>} :
                /\ Elems(able(Fresh, status, ids)) =
                      {actions[i] : i \in Candidates(status, ids)}
                /\ \A id \in Elems(able(Fresh, status, ids)) :
                      ents[recs[id].entity].entityId \in Elems(ids)

\* The log is [applied A, reverted B]: undoLast([]) reverts the record of A
\* and redoLast([]) re-applies the one of B, as without ids, while
\* undoLast(["B"]) finds nothing.
C13_Witness ==
    /\ Len(actions) = 2
    /\ recs[actions[1]].entity = "e1" /\ recs[actions[1]].status = "restored"
    /\ recs[actions[2]].entity = "e2" /\ recs[actions[2]].status = "undone"
    /\ Undone(<<>>).recs[actions[1]].status = "undone"
    /\ Redone(Fresh, <<>>).recs[actions[2]].status = "restored"
    /\ Undone(<<"B">>) = Fresh
    /\ Redone(Fresh, <<"A">>) = Fresh

\* ------------------------------------------------------------- C14
\* C14: undoLast(ids) when no applied record of actions passes the filter, and
\* redoLast(ids) when no reverted record passes it, call no callback and leave
\* actions, pending, every record and every entity as they are.
C14_NoMatchIsNoOp ==
    \A ids \in Arrays(Ids) \cup {NoIds} :
        /\ Candidates("restored", ids) = {} => Undone(ids) = Fresh
        /\ Candidates("undone", ids) = {} => Redone(Fresh, ids) = Fresh

\* Two records of B are reverted and nothing is applied: undoLast() finds
\* nothing, redoLast(["A"]) finds nothing, redoLast(["B"]) finds a record.
C14_Witness ==
    /\ Len(actions) = 2
    /\ actions[1] # actions[2]
    /\ \A i \in DOMAIN actions :
          recs[actions[i]].entity = "e2" /\ recs[actions[i]].status = "undone"
    /\ Undone(NoIds) = Fresh
    /\ Redone(Fresh, <<"A">>) = Fresh
    /\ Redone(Fresh, <<"B">>) # Fresh

\* ------------------------------------------------------------- C15
\* C15: a service constructed with maxActions zero or negative keeps no
\* history: actions is empty in every reachable state, and every undoLast and
\* redoLast, whatever ids, calls nothing and changes nothing.
C15_NoHistoryKept ==
    /\ maxActions <= 0
    /\ actions = <<>>
    /\ \A ids \in Arrays(Ids) \cup {NoIds} :
          /\ Undone(ids) = Fresh
          /\ Redone(Fresh, ids) = Fresh

\* Records were pushed onto actions, by begin(create) and by commit, and none
\* is left, while a further update is staged.
C15_Witness ==
    /\ maxActions < 0
    /\ Len(appended) >= 2
    /\ appended[1] # appended[2]
    /\ actions = <<>>
    /\ Len(pending) = 1
    /\ recs[pending[1]].prevState.val # ents[recs[pending[1]].entity]

\* ------------------------------------------------------------- C16
\* pending holds at most one record for each entity id.
OnePerId(S) ==
    \A i, j \in DOMAIN S.pending :
        S.ents[S.recs[S.pending[i]].entity].entityId
            = S.ents[S.recs[S.pending[j]].entity].entityId => i = j

\* C16 as stated: in every reachable state staging holds at most one in-flight
\* record for each entity id, also when begin(update) is called more than
\* once for the same entity before a commit or an abort.
C16_OnePerEntityId_Original == OnePerId(Fresh)

\* C16 as amended: begin(es, update) appends to staging one new pending record
\* for each element of es, in order, whether or not the entity is staged
\* already; staging holds at most one record for each entity id as long as
\* no begin(update) lists an entity twice or lists one that is staged.
C16_BeginAppendsToStaging ==
    \A es \in Arrays(Entities) :
        LET S1 == start(Fresh, es, "update", maxActions)
        IN /\ S1.pending = pending \o [i \in 1..Len(es) |-> top + i]
           /\ S1.actions = actions
           /\ \A i \in 1..Len(es) :
                 /\ S1.recs[top + i].entity = es[i]
                 /\ S1.recs[top + i].status = "pending"
                 /\ S1.recs[top + i].prevState.val = ents[es[i]]
           /\ (/\ OnePerId(Fresh)
               /\ \A i, j \in DOMAIN es : es[i] = es[j] => i = j
               /\ \A i \in DOMAIN es : ~Staged(es[i])) => OnePerId(S1)

\* begin, an edit and begin again have run on e1: staging holds two records
\* of e1, with different before-states, and a further begin adds a third.
C16_Witness ==
    /\ Len(pending) = 2
    /\ pending[1] # pending[2]
    /\ recs[pending[1]].entity = "e1"
    /\ recs[pending[2]].entity = "e1"
    /\ recs[pending[1]].prevState.val # recs[pending[2]].prevState.val
    /\ Len(start(Fresh, <<"e1">>, "update", maxActions).pending) = 3

\* ------------------------------------------------------------- C17
\* In the log of S every applied record stands before every reverted one.
Linear(S) ==
    \A i, j \in DOMAIN S.actions :
        (/\ S.recs[S.actions[i]].status = "undone"
         /\ S.recs[S.actions[j]].status = "restored") => j < i

\* C17: when undoLast and redoLast are only ever called without ids, in every
\* reachable state all applied records of actions precede all reverted ones,
\* also after a begin or a commit made while some records are reverted.
C17_LinearCursor == Linear(Fresh)

\* ------------------------------------------------------------- C18
\* The records of the log of S that have the status.
RecordsWith(S, status) ==
    {S.actions[i] : i \in {j \in DOMAIN S.actions : S.recs[S.actions[j]].status = status}}

\* n calls of undoLast(), and of redoLast(), in a row from S.
RECURSIVE UndoTimes(_, _)
UndoTimes(S, n) ==
    IF n = 0 THEN S
    ELSE UndoTimes(undoLast([S EXCEPT !.calls = <<>>], NoIds,
                            createRequested, deleteRequested), n - 1)

RECURSIVE RedoTimes(_, _)
RedoTimes(S, n) == IF n = 0 THEN S ELSE RedoTimes(Redone(S, NoIds), n - 1)

\* C18: an undoLast() that finds a record leaves one applied record less in
\* actions, a redoLast() that finds a record one reverted record less, and
\* one that finds none changes nothing; after as many undoLast() (redoLast())
\* as actions is long, no applied (reverted) record is left to find.
C18_UndoRedoStop ==
    /\ IF Candidates("restored", NoIds) # {}
       THEN Cardinality(RecordsWith(Undone(NoIds), "restored"))
               = Cardinality(RecordsWith(Fresh, "restored")) - 1
       ELSE Undone(NoIds) = Fresh
    /\ IF Candidates("undone", NoIds) # {}
       THEN Cardinality(RecordsWith(Redone(Fresh, NoIds), "undone"))
               = Cardinality(RecordsWith(Fresh, "undone")) - 1
       ELSE Redone(Fresh, NoIds) = Fresh
    /\ RecordsWith(UndoTimes(Fresh, Len(actions)), "restored") = {}
    /\ RecordsWith(RedoTimes(Fresh, Len(actions)), "undone") = {}

\* Two applied records, the older one a deletion: one undoLast() leaves an
\* applied record, the second leaves none, and two redoLast() bring both back.
C18_Witness ==
    /\ Len(actions) = 2
    /\ actions[1] # actions[2]
    /\ recs[actions[1]].cudOp = "delete"
    /\ RecordsWith(Fresh, "restored") = {actions[1], actions[2]}
    /\ RecordsWith(UndoTimes(Fresh, 1), "restored") = {actions[1]}
    /\ RecordsWith(UndoTimes(Fresh, 2), "restored") = {}
    /\ RecordsWith(RedoTimes(UndoTimes(Fresh, 2), 2), "undone") = {}

\* ------------------------------------------------------------- C19
\* The positions of actions whose record tracks e.
RecordsOf(e) == {i \in DOMAIN actions : recs[actions[i]].entity = e}

\* C19: from every reachable state with empty staging, after redoLast() has
\* been repeated until it finds nothing, every entity with an update record
\* in actions has the fields of the after-state of its last record in actions.
C19_ReplayConsistency ==
    pending = <<>> =>
        LET S1 == RedoTimes(Fresh, Len(actions))
        IN /\ RecordsWith(S1, "undone") = {}
           /\ \A e \in Entities :
                 (\E i \in RecordsOf(e) : recs[actions[i]].cudOp = "update") =>
                     S1.ents[e] = S1.recs[actions[Max(RecordsOf(e))]].nextState.val

\* ------------------------------------------------------------- C20
\* Every record in pending is pending, every record in actions is applied or
\* reverted.
StatusDiscipline ==
    /\ \A i \in DOMAIN pending : recs[pending[i]].status = "pending"
    /\ \A i \in DOMAIN actions : recs[actions[i]].status \in {"restored", "undone"}

\* A step leaves the operation kind of every record it keeps.
CudOpKept ==
    \A id \in DOMAIN recs \cap DOMAIN recs' : recs'[id].cudOp = recs[id].cudOp

\* C20: in every reachable state every record in staging has status pending
\* and every record in actions has status applied or reverted, never
\* pending; the operation kind of a record never changes after construction.
C20_StatusDiscipline == [](StatusDiscipline) /\ [][CudOpKept]_vars

\* A pending update of e1 is staged while the log holds an applied creation
\* and a reverted update.
C20_Witness ==
    /\ Len(pending) = 1
    /\ recs[pending[1]].status = "pending"
    /\ recs[pending[1]].cudOp = "update"
    /\ Len(actions) = 2
    /\ recs[actions[1]].cudOp = "create" /\ recs[actions[1]].status = "restored"
    /\ recs[actions[2]].cudOp = "update" /\ recs[actions[2]].status = "undone"

\* ------------------------------------------------------------- C21
\* C21: in every reachable state no record stands at two positions of
\* actions, also when commit lists the same entity more than once.
C21_NoRecordTwice ==
    \A i, j \in DOMAIN actions : actions[i] = actions[j] => i = j
====
